---- MODULE Spec2Model ----
(***************************************************************************)
(* A model of the scan pipeline's leaves: the per-vendor detectors        *)
(* (walkscore, okta, abuseipdb, verifier, paypaloauth, currencycloud,     *)
(* text2data) and the syslog source.                                      *)
(*                                                                         *)
(* Detector input is a byte string.  It is modelled as a sequence of      *)
(* lexemes joined by single spaces; every lexeme stands for one concrete  *)
(* string whose shape depends on the detector that scans it:              *)
(*   "kw"    the detector's keyword, lower case   (walkscore, okta, ...)  *)
(*   "KW"    the same keyword in upper case       (WALKSCORE, OKTA, ...)  *)
(*   "key"   a well-formed, random-looking secret of the detector         *)
(*           (walkscore: 32 chars of [0-9a-z]; okta: 00 + 40 chars; ...)  *)
(*   "keyfp" a well-formed secret that the false-positive classifier      *)
(*           rejects (it contains "aaaaaa")                               *)
(*   "id"    the detector's second token (verifier, currencycloud: an     *)
(*           e-mail address user1@mail.com; paypaloauth: a client id;     *)
(*           okta: the domain dev-1234.okta.com)                          *)
(*   "junk"  the word hello                                               *)
(***************************************************************************)
EXTENDS Integers, Sequences, FiniteSets

(***************************************************************************)
(* Bounds                                                                  *)
(***************************************************************************)
MaxDataLen == 4

MaxCand == 4

\* Datagrams that arrive at the UDP listener during one run.
MaxPackets == 2

\* Client connections made to the TCP/TLS listener during one run.
MaxConns == 2

\* Segments the clients send on their connections, all together.
MaxSegs == 1

\* Connections made and segments sent by the clients, all together.
MaxClientOps == 2

\* Longest string, in bytes, handed to the sanitizer.
MaxBytes == 4

\* Pieces a repository URL is put together from.
MaxPieces == 3

\* Parts a git URI is put together from.
MaxUriParts == 3

\* Capacity of the chunk channel the caller passes to Chunks.
ChanCap == 1

\* runtime.NumCPU() of the host.
NumCPU == 1

(***************************************************************************)
(* Detectors: static data                                                  *)
(***************************************************************************)
Detectors ==
  {"walkscore", "okta", "abuseipdb", "verifier", "paypaloauth", "currencycloud", "text2data"}

Lexemes == {"kw", "KW", "key", "keyfp", "id", "junk"}

KeyLexemes == {"key", "keyfp"}

walkscore_Keywords == {"walkscore"}

okta_Keywords == {"okta"}

abuseipdb_Keywords == {"abuseipdb"}

verifier_Keywords == {"verifier"}

paypaloauth_Keywords == {"paypal"}

currencycloud_Keywords == {"currencycloud"}

text2data_Keywords == {"text2data"}

Keywords(d) ==
  CASE d = "walkscore" -> walkscore_Keywords
    [] d = "okta" -> okta_Keywords
    [] d = "abuseipdb" -> abuseipdb_Keywords
    [] d = "verifier" -> verifier_Keywords
    [] d = "paypaloauth" -> paypaloauth_Keywords
    [] d = "currencycloud" -> currencycloud_Keywords
    [] d = "text2data" -> text2data_Keywords

\* The keyword that the lexemes "kw" and "KW" spell when detector d scans.
KwString(d) ==
  CASE d = "walkscore" -> "walkscore"
    [] d = "okta" -> "okta"
    [] d = "abuseipdb" -> "abuseipdb"
    [] d = "verifier" -> "verifier"
    [] d = "paypaloauth" -> "paypal"
    [] d = "currencycloud" -> "currencycloud"
    [] d = "text2data" -> "text2data"

KwLen(d) ==
  CASE d = "walkscore" -> 9
    [] d = "okta" -> 4
    [] d = "abuseipdb" -> 9
    [] d = "verifier" -> 8
    [] d = "paypaloauth" -> 6
    [] d = "currencycloud" -> 13
    [] d = "text2data" -> 9

\* Length of the secret the detector's key pattern captures.
KeyLen(d) ==
  CASE d = "walkscore" -> 32
    [] d = "okta" -> 42
    [] d = "abuseipdb" -> 80
    [] d = "verifier" -> 96
    [] d = "paypaloauth" -> 80
    [] d = "currencycloud" -> 64
    [] d = "text2data" -> 36

\* Length of the "id" lexeme: a paypal client id (7 + 1 + 72), the okta
\* domain dev-1234.okta.com, the e-mail address user1@mail.com otherwise.
IdLen(d) ==
  CASE d = "paypaloauth" -> 80
    [] d = "okta" -> 17
    [] OTHER -> 14

LexLen(d, t) ==
  CASE t \in {"kw", "KW"} -> KwLen(d)
    [] t \in KeyLexemes -> KeyLen(d)
    [] t = "id" -> IdLen(d)
    [] OTHER -> 5

\* bytes.ToLower on one lexeme: the upper-case keyword becomes the keyword.
ToLower(t) == IF t = "KW" THEN "kw" ELSE t

\* strings.Contains(lexeme, k) for a lower-cased lexeme and a keyword k; the
\* okta domain dev-1234.okta.com is the only other lexeme holding a keyword.
LexContains(d, t, k) ==
  /\ k = KwString(d)
  /\ \/ t = "kw"
     \/ d = "okta" /\ t = "id"

\* The engine's pre-filter: the lowercased data contains one of the keywords.
PreFilter(d, data) ==
  \E i \in 1..Len(data) : \E k \in Keywords(d) : LexContains(d, ToLower(data[i]), k)

(***************************************************************************)
(* Regular expressions over lexeme sequences                               *)
(***************************************************************************)
\* detectors.PrefixRegex: (?i)(?:kw)(?:.|[\n\r]){0,40}
PrefixWindow == 40

\* Number of bytes between the end of lexeme i and the start of lexeme j > i.
RECURSIVE Gap(_, _, _, _)
Gap(d, data, i, j) ==
  IF j = i + 1 THEN 1 ELSE Gap(d, data, i, j - 1) + LexLen(d, data[j - 1]) + 1

\* The targets a prefix match that starts at keyword i can capture.
PrefixTargets(d, data, i, targets) ==
  {j \in (i + 1)..Len(data) : data[j] \in targets /\ Gap(d, data, i, j) <= PrefixWindow}

Max(S) == CHOOSE x \in S : \A y \in S : y <= x

\* FindAllStringSubmatch of PrefixRegex(kw) + \b(target)\b from lexeme `from`:
\* leftmost keyword (any case) that has a target within the window, greedy
\* window (the furthest target), then on from the end of the match.
RECURSIVE PrefixFindAll(_, _, _, _)
PrefixFindAll(d, data, targets, from) ==
  LET starts == {i \in from..Len(data) :
                   /\ data[i] \in {"kw", "KW"}
                   /\ PrefixTargets(d, data, i, targets) # {}}
  IN IF starts = {} THEN << >>
     ELSE LET i == CHOOSE x \in starts : \A y \in starts : x <= y
              j == Max(PrefixTargets(d, data, i, targets))
          IN <<data[j]>> \o PrefixFindAll(d, data, targets, j + 1)

\* FindAll of a pattern without keyword prefix: every target lexeme, in order.
PlainFindAll(data, targets) == SelectSeq(data, LAMBDA t : t \in targets)

(***************************************************************************)
(* HTTP: what one verification request can come back with                  *)
(***************************************************************************)
\* err: client.Do failed; status: the response's status code; marker: the
\* body contains the string the detector looks for; readErr: reading the
\* body failed.
StatusCodes == {200, 403}

NetErr == [err |-> TRUE, status |-> 0, marker |-> FALSE, readErr |-> FALSE]

NoRequest == [err |-> FALSE, status |-> 0, marker |-> FALSE, readErr |-> FALSE]

Responses ==
  {[err |-> FALSE, status |-> s, marker |-> m, readErr |-> FALSE] : s \in StatusCodes, m \in BOOLEAN}
    \cup {[err |-> FALSE, status |-> 200, marker |-> FALSE, readErr |-> TRUE]}

Outcomes == {NetErr} \cup Responses

Is2xx(status) == status >= 200 /\ status < 300

(***************************************************************************)
(* Shared helpers of package detectors                                     *)
(***************************************************************************)
\* detectors.IsKnownFalsePositive(match, DefaultFalsePositives, true)
IsKnownFalsePositive(raw) == raw = "keyfp"

\* detectors.CleanResults: one result per Raw, in order of first occurrence,
\* verified when any instance with that Raw was verified.
RECURSIVE CleanFrom(_, _)
CleanFrom(results, seen) ==
  IF results = << >> THEN << >>
  ELSE LET r == Head(results)
       IN IF r.Raw \in seen THEN CleanFrom(Tail(results), seen)
          ELSE <<[DetectorType |-> r.DetectorType,
                  Raw |-> r.Raw,
                  Verified |-> \E k \in 1..Len(results) :
                                  results[k].Raw = r.Raw /\ results[k].Verified]>>
               \o CleanFrom(Tail(results), seen \cup {r.Raw})

CleanResults(results) == CleanFrom(results, {})

(***************************************************************************)
(* Candidates: the matches each FromData iterates over                     *)
(***************************************************************************)
Singles(keys) == [n \in 1..Len(keys) |-> [raw |-> keys[n], id |-> "none"]]

\* for _, match := range keys { for _, idMatch := range ids { ... } }
Pairs(keys, ids) ==
  [n \in 1..(Len(keys) * Len(ids)) |->
     [raw |-> keys[((n - 1) \div Len(ids)) + 1], id |-> ids[((n - 1) % Len(ids)) + 1]]]

walkscore_Matches(data) == Singles(PrefixFindAll("walkscore", data, KeyLexemes, 1))

abuseipdb_Matches(data) == Singles(PrefixFindAll("abuseipdb", data, KeyLexemes, 1))

text2data_Matches(data) == Singles(PrefixFindAll("text2data", data, KeyLexemes, 1))

verifier_Matches(data) ==
  Pairs(PrefixFindAll("verifier", data, KeyLexemes, 1), PrefixFindAll("verifier", data, {"id"}, 1))

currencycloud_Matches(data) ==
  Pairs(PrefixFindAll("currencycloud", data, KeyLexemes, 1), PlainFindAll(data, {"id"}))

paypaloauth_Matches(data) == Pairs(PlainFindAll(data, KeyLexemes), PlainFindAll(data, {"id"}))

okta_Matches(data) == Pairs(PlainFindAll(data, KeyLexemes), PlainFindAll(data, {"id"}))

Matches(d, data) ==
  CASE d = "walkscore" -> walkscore_Matches(data)
    [] d = "okta" -> okta_Matches(data)
    [] d = "abuseipdb" -> abuseipdb_Matches(data)
    [] d = "verifier" -> verifier_Matches(data)
    [] d = "paypaloauth" -> paypaloauth_Matches(data)
    [] d = "currencycloud" -> currencycloud_Matches(data)
    [] d = "text2data" -> text2data_Matches(data)

(***************************************************************************)
(* One iteration of each detector's loop.                                  *)
(* sent: an HTTP request was sent; fpChecked: IsKnownFalsePositive was     *)
(* called; emit: the result was appended; verified: its Verified field;    *)
(* abort: FromData returned the error at once.                             *)
(***************************************************************************)
Step(sent, fpChecked, emit, verified, abort) ==
  [sent |-> sent, fpChecked |-> fpChecked, emit |-> emit, verified |-> verified, abort |-> abort]

walkscore_Body(verify, raw, resp) ==
  IF ~verify THEN Step(FALSE, FALSE, TRUE, FALSE, FALSE)
  ELSE IF resp.err THEN Step(TRUE, FALSE, TRUE, FALSE, FALSE)
  ELSE IF resp.readErr THEN Step(TRUE, FALSE, FALSE, FALSE, FALSE)
  ELSE IF Is2xx(resp.status) /\ resp.marker THEN Step(TRUE, FALSE, TRUE, TRUE, FALSE)
  ELSE IF IsKnownFalsePositive(raw) THEN Step(TRUE, TRUE, FALSE, FALSE, FALSE)
  ELSE Step(TRUE, TRUE, TRUE, FALSE, FALSE)

abuseipdb_Body(verify, raw, resp) ==
  IF ~verify THEN Step(FALSE, FALSE, TRUE, FALSE, FALSE)
  ELSE IF resp.err THEN Step(TRUE, FALSE, TRUE, FALSE, FALSE)
  ELSE IF resp.readErr THEN Step(TRUE, FALSE, TRUE, FALSE, FALSE)
  ELSE IF Is2xx(resp.status) THEN Step(TRUE, FALSE, TRUE, resp.marker, FALSE)
  ELSE IF IsKnownFalsePositive(raw) THEN Step(TRUE, TRUE, FALSE, FALSE, FALSE)
  ELSE Step(TRUE, TRUE, TRUE, FALSE, FALSE)

text2data_Body(verify, raw, resp) ==
  IF ~verify THEN Step(FALSE, FALSE, TRUE, FALSE, FALSE)
  ELSE IF resp.err THEN Step(TRUE, FALSE, TRUE, FALSE, FALSE)
  ELSE IF resp.readErr THEN Step(TRUE, FALSE, TRUE, FALSE, FALSE)
  ELSE IF Is2xx(resp.status) /\ resp.marker THEN Step(TRUE, FALSE, TRUE, TRUE, FALSE)
  ELSE IF IsKnownFalsePositive(raw) THEN Step(TRUE, TRUE, FALSE, FALSE, FALSE)
  ELSE Step(TRUE, TRUE, TRUE, FALSE, FALSE)

\* The body of the response is never read.
verifier_Body(verify, raw, resp) ==
  IF ~verify THEN Step(FALSE, FALSE, TRUE, FALSE, FALSE)
  ELSE IF resp.err THEN Step(TRUE, FALSE, TRUE, FALSE, FALSE)
  ELSE IF Is2xx(resp.status) THEN Step(TRUE, FALSE, TRUE, TRUE, FALSE)
  ELSE IF IsKnownFalsePositive(raw) THEN Step(TRUE, TRUE, FALSE, FALSE, FALSE)
  ELSE Step(TRUE, TRUE, TRUE, FALSE, FALSE)

paypaloauth_Body(verify, raw, resp) ==
  IF ~verify THEN Step(FALSE, FALSE, TRUE, FALSE, FALSE)
  ELSE IF resp.err THEN Step(TRUE, FALSE, TRUE, FALSE, FALSE)
  ELSE IF Is2xx(resp.status) THEN Step(TRUE, FALSE, TRUE, TRUE, FALSE)
  ELSE IF IsKnownFalsePositive(raw) THEN Step(TRUE, TRUE, FALSE, FALSE, FALSE)
  ELSE Step(TRUE, TRUE, TRUE, FALSE, FALSE)

\* The status code of the response is never looked at.
currencycloud_Body(verify, raw, resp) ==
  IF ~verify THEN Step(FALSE, FALSE, TRUE, FALSE, FALSE)
  ELSE IF resp.err THEN Step(TRUE, FALSE, TRUE, FALSE, FALSE)
  ELSE IF resp.readErr THEN Step(TRUE, FALSE, FALSE, FALSE, FALSE)
  ELSE IF resp.marker THEN Step(TRUE, FALSE, TRUE, TRUE, FALSE)
  ELSE IF IsKnownFalsePositive(raw) THEN Step(TRUE, TRUE, FALSE, FALSE, FALSE)
  ELSE Step(TRUE, TRUE, TRUE, FALSE, FALSE)

\* A failed request returns from FromData; the body is never read; every
\* result that is not verified goes through the false-positive classifier.
okta_Body(verify, raw, resp) ==
  LET verified == verify /\ ~resp.err /\ Is2xx(resp.status)
  IN IF verify /\ resp.err THEN Step(TRUE, FALSE, FALSE, FALSE, TRUE)
     ELSE IF verified THEN Step(verify, FALSE, TRUE, TRUE, FALSE)
     ELSE IF IsKnownFalsePositive(raw) THEN Step(verify, TRUE, FALSE, FALSE, FALSE)
     ELSE Step(verify, TRUE, TRUE, FALSE, FALSE)

Body(d, verify, raw, resp) ==
  CASE d = "walkscore" -> walkscore_Body(verify, raw, resp)
    [] d = "okta" -> okta_Body(verify, raw, resp)
    [] d = "abuseipdb" -> abuseipdb_Body(verify, raw, resp)
    [] d = "verifier" -> verifier_Body(verify, raw, resp)
    [] d = "paypaloauth" -> paypaloauth_Body(verify, raw, resp)
    [] d = "currencycloud" -> currencycloud_Body(verify, raw, resp)
    [] d = "text2data" -> text2data_Body(verify, raw, resp)

\* The loop over the candidates from candidate k on: the results appended,
\* the record of every iteration, and whether the loop returned an error.
RECURSIVE RunLoop(_, _, _, _, _)
RunLoop(d, verify, cands, http, k) ==
  IF k > Len(cands) THEN [results |-> << >>, trace |-> << >>, err |-> FALSE]
  ELSE LET c == cands[k]
           resp == IF verify THEN http[k] ELSE NoRequest
           b == Body(d, verify, c.raw, resp)
           entry == [raw |-> c.raw, id |-> c.id, sent |-> b.sent, resp |-> resp,
                     fpChecked |-> b.fpChecked, emitted |-> b.emit, verified |-> b.verified]
           rest == IF b.abort THEN [results |-> << >>, trace |-> << >>, err |-> TRUE]
                   ELSE RunLoop(d, verify, cands, http, k + 1)
       IN [results |-> (IF b.emit
                        THEN <<[DetectorType |-> d, Raw |-> c.raw, Verified |-> b.verified]>>
                        ELSE << >>) \o rest.results,
           trace |-> <<entry>> \o rest.trace,
           err |-> rest.err]

\* FromData of the detectors that end with detectors.CleanResults(results).
CleanedFromData(d, verify, data, http) ==
  LET run == RunLoop(d, verify, Matches(d, data), http, 1)
  IN [results |-> CleanResults(run.results), trace |-> run.trace, err |-> run.err]

walkscore_FromData(verify, data, http) == CleanedFromData("walkscore", verify, data, http)

abuseipdb_FromData(verify, data, http) == CleanedFromData("abuseipdb", verify, data, http)

text2data_FromData(verify, data, http) == CleanedFromData("text2data", verify, data, http)

verifier_FromData(verify, data, http) == CleanedFromData("verifier", verify, data, http)

paypaloauth_FromData(verify, data, http) == CleanedFromData("paypaloauth", verify, data, http)

currencycloud_FromData(verify, data, http) == CleanedFromData("currencycloud", verify, data, http)

\* okta returns its results as appended, without CleanResults.
okta_FromData(verify, data, http) == RunLoop("okta", verify, okta_Matches(data), http, 1)

FromData(d, verify, data, http) ==
  CASE d = "walkscore" -> walkscore_FromData(verify, data, http)
    [] d = "okta" -> okta_FromData(verify, data, http)
    [] d = "abuseipdb" -> abuseipdb_FromData(verify, data, http)
    [] d = "verifier" -> verifier_FromData(verify, data, http)
    [] d = "paypaloauth" -> paypaloauth_FromData(verify, data, http)
    [] d = "currencycloud" -> currencycloud_FromData(verify, data, http)
    [] d = "text2data" -> text2data_FromData(verify, data, http)

(***************************************************************************)
(* State                                                                   *)
(***************************************************************************)
VARIABLES
  dName,      \* the detector whose FromData is called
  dData,      \* the data argument, a sequence of lexemes
  dVerify,    \* the verify argument
  dHttp,      \* what the k-th verification request of the call comes back with
  dPc,        \* "ready" before the call, "done" after it returned
  dOut,       \* what the call returned: results, err, and the loop's record
  sInit,      \* syslog Source: "new", where Init is, or how it ended: "ok", "failed"
  tlsEnabled, \* the local tlsEnabled of verifyConnectionConfig
  sInitErr,   \* the error Init returned ("" for nil)
  sCfg,       \* the connection payload handed to Init
  sSrc,       \* Source.name, sourceId, jobId, verify
  sConn,      \* Source.conn
  sSyslog,    \* Source.syslog
  lis,        \* the listener Chunks created
  opened,     \* number of listeners created so far
  cPc,        \* where the goroutine running Chunks is
  cErr,       \* the error Chunks returned ("" for nil)
  cCert,      \* the certificate Chunks has loaded for tls.X509KeyPair
  cHold,      \* the Chunk that goroutine is about to push
  udpTimer,   \* time left until the UDP listener's deadline
  sockBuf,    \* datagrams received by the kernel, not yet read
  arrived,    \* number of datagrams that arrived so far
  backlog,    \* connections established, not yet accepted
  workers,    \* the monitorConnection goroutines, by connection
  chunksChan, \* the chunk channel
  emitted,    \* the Chunks pushed into the channel, in order, by connection (0: UDP)
  ctxDone,    \* the context passed to Chunks is cancelled
  sinceCancel,\* time Chunks has been running with a cancelled context
  fIn,        \* the argument(s) of the utility function called
  fOut,       \* what it returned
  fPc         \* "ready" before the call, then "done" ("again" after a second call)

dvars == <<dName, dData, dVerify, dHttp, dPc, dOut>>

svars ==
  <<sInit, sInitErr, tlsEnabled, sCfg, sSrc, sConn, sSyslog, lis, opened, cPc, cErr, cCert, cHold, udpTimer,
    sockBuf, arrived, backlog, workers, chunksChan, emitted, ctxDone, sinceCancel>>

fvars == <<fIn, fOut, fPc>>

vars == <<dvars, svars, fvars>>

(***************************************************************************)
(* Syslog source: configuration                                            *)
(***************************************************************************)
nilString == ""

\* Values of the fields of a sourcespb.Syslog connection handed to Init.
Protocols == {"", "tcp", "udp", "tcp4"}

TlsCerts == {"", "CERT"}

TlsKeys == {"", "KEY"}

ListenAddresses == {"", ":6514"}

Formats == {"", "rfc3164", "rfc5424"}

Connections ==
  [Protocol : Protocols, TlsCert : TlsCerts, TlsKey : TlsKeys,
   ListenAddress : ListenAddresses, Format : Formats]

\* Connections with which the source is run at length.
RunConnections ==
  {c \in Connections : /\ c.Protocol \in {"tcp", "udp"}
                       /\ (c.TlsCert = "") = (c.TlsKey = "")
                       /\ c.ListenAddress = ""
                       /\ c.Format = ""}

\* Messages injected where the configuration is checked: every protocol with
\* and without certificate and key; Chunks uses no other field to choose
\* the listener.
ConfigInjections == {c \in Connections : c.ListenAddress = "" /\ c.Format = ""}

\* Messages injected into the source that is run at length: the empty
\* message &sourcespb.Syslog{} and one that names tcp.
RunInjections ==
  {c \in Connections : /\ c.Protocol \in {"", "tcp"}
                       /\ c.TlsCert = "" /\ c.TlsKey = ""
                       /\ c.ListenAddress = ""
                       /\ c.Format = ""}

Names == {"syslog-a"}

JobIds == {7}

SourceIds == {3}

NilConn ==
  [isNil |-> TRUE, Protocol |-> "", TlsCert |-> "", TlsKey |-> "", ListenAddress |-> "",
   Format |-> ""]

\* anypb.UnmarshalTo into a fresh sourcespb.Syslog.
Unmarshal(cfg) ==
  [isNil |-> FALSE, Protocol |-> cfg.Protocol, TlsCert |-> cfg.TlsCert, TlsKey |-> cfg.TlsKey,
   ListenAddress |-> cfg.ListenAddress, Format |-> cfg.Format]

NoError == [prefix |-> "", msg |-> ""]

TlsEnabled(conn) == conn.TlsCert # nilString \/ conn.TlsKey # nilString

Type == "SOURCE_TYPE_SYSLOG"

NilSyslog ==
  [isNil |-> TRUE, sourceType |-> "", sourceName |-> "", sourceID |-> 0, jobID |-> 0,
   verify |-> FALSE, concurrency |-> 0]

NewSyslog(sourceType, jobID, sourceID, sourceName, verify, concurrency) ==
  [isNil |-> FALSE, sourceType |-> sourceType, sourceName |-> sourceName, sourceID |-> sourceID,
   jobID |-> jobID, verify |-> verify, concurrency |-> concurrency]

\* Where Init is between its first statement and its return.  Init stores
\* s.conn and verifyConnectionConfig loads it anew for every field it reads
\* or writes, while InjectConnection stores to it without synchronisation:
\* every load and every store is a step of its own.
InitPcs ==
  {"verify_tlscert", "verify_tlskey", "verify_protocol", "default_protocol", "verify_udptls",
   "verify_address", "default_address", "verify_format", "default_format", "init_return"}

InitFrame ==
  /\ UNCHANGED <<lis, opened, cPc, cErr, cCert, cHold, udpTimer, sockBuf, arrived, backlog,
                 workers, chunksChan, emitted, ctxDone, sinceCancel>>
  /\ UNCHANGED <<dvars, fvars>>

\* verifyConnectionConfig goes on to its next load of s.conn.
InitGoto(pc) ==
  /\ sInit' = pc
  /\ UNCHANGED <<sInitErr, sCfg, sSrc, sConn, sSyslog, tlsEnabled>>

\* Source.Init up to s.conn = &conn.
SourceInit(name, jobId, sourceId, verify, cfg, decodes) ==
  /\ sInit = "new"
  /\ sSrc' = [name |-> name, sourceId |-> sourceId, jobId |-> jobId, verify |-> verify]
  /\ IF ~decodes
     THEN /\ sInit' = "failed"
          /\ sInitErr' = [prefix |-> "error unmarshalling connection", msg |-> "proto"]
          /\ UNCHANGED <<sCfg, sConn>>
     ELSE /\ sCfg' = cfg
          /\ sConn' = Unmarshal(cfg)
          /\ sInit' = "verify_tlscert"
          /\ UNCHANGED sInitErr
  /\ UNCHANGED <<sSyslog, tlsEnabled>>
  /\ InitFrame

\* tlsEnabled := s.conn.TlsCert != nilString || ...: the left operand.
VerifyTlsCert ==
  /\ sInit = "verify_tlscert"
  /\ IF sConn.TlsCert # nilString
     THEN /\ tlsEnabled' = TRUE
          /\ sInit' = "verify_protocol"
     ELSE /\ sInit' = "verify_tlskey"
          /\ UNCHANGED tlsEnabled
  /\ UNCHANGED <<sInitErr, sCfg, sSrc, sConn, sSyslog>>
  /\ InitFrame

\* ... || s.conn.TlsKey != nilString: the right operand.
VerifyTlsKey ==
  /\ sInit = "verify_tlskey"
  /\ tlsEnabled' = (sConn.TlsKey # nilString)
  /\ sInit' = "verify_protocol"
  /\ UNCHANGED <<sInitErr, sCfg, sSrc, sConn, sSyslog>>
  /\ InitFrame

\* if s.conn.Protocol == nilString
VerifyProtocol ==
  /\ sInit = "verify_protocol"
  /\ InitGoto(IF sConn.Protocol = nilString THEN "default_protocol" ELSE "verify_udptls")
  /\ InitFrame

\* s.conn.Protocol = "tcp" or "udp": a store into the message s.conn points
\* to by now.
DefaultProtocol ==
  /\ sInit = "default_protocol"
  /\ sConn' = [sConn EXCEPT !.Protocol = IF tlsEnabled THEN "tcp" ELSE "udp"]
  /\ sInit' = "verify_udptls"
  /\ UNCHANGED <<sInitErr, sCfg, sSrc, sSyslog, tlsEnabled>>
  /\ InitFrame

\* if s.conn.Protocol == "udp" && tlsEnabled: the error return of
\* verifyConnectionConfig and of Init.
VerifyUdpTls ==
  /\ sInit = "verify_udptls"
  /\ IF sConn.Protocol = "udp" /\ tlsEnabled
     THEN /\ sInit' = "failed"
          /\ sInitErr' = [prefix |-> "invalid configuration",
                          msg |-> "TLS is not supported over UDP"]
          /\ tlsEnabled' = FALSE
     ELSE /\ sInit' = "verify_address"
          /\ UNCHANGED <<sInitErr, tlsEnabled>>
  /\ UNCHANGED <<sCfg, sSrc, sConn, sSyslog>>
  /\ InitFrame

\* if s.conn.ListenAddress == nilString
VerifyListenAddress ==
  /\ sInit = "verify_address"
  /\ InitGoto(IF sConn.ListenAddress = nilString THEN "default_address" ELSE "verify_format")
  /\ InitFrame

\* s.conn.ListenAddress = ":5140"
DefaultListenAddress ==
  /\ sInit = "default_address"
  /\ sConn' = [sConn EXCEPT !.ListenAddress = ":5140"]
  /\ sInit' = "verify_format"
  /\ UNCHANGED <<sInitErr, sCfg, sSrc, sSyslog, tlsEnabled>>
  /\ InitFrame

\* if s.conn.Format == nilString
VerifyFormat ==
  /\ sInit = "verify_format"
  /\ InitGoto(IF sConn.Format = nilString THEN "default_format" ELSE "init_return")
  /\ InitFrame

\* s.conn.Format = "rfc3164"
DefaultFormat ==
  /\ sInit = "default_format"
  /\ sConn' = [sConn EXCEPT !.Format = "rfc3164"]
  /\ sInit' = "init_return"
  /\ UNCHANGED <<sInitErr, sCfg, sSrc, sSyslog, tlsEnabled>>
  /\ InitFrame

\* s.syslog = NewSyslog(...); return nil
InitReturn ==
  /\ sInit = "init_return"
  /\ sSyslog' = NewSyslog(Type, sSrc.jobId, sSrc.sourceId, sSrc.name, sSrc.verify, NumCPU)
  /\ sInit' = "ok"
  /\ sInitErr' = NoError
  /\ tlsEnabled' = FALSE
  /\ UNCHANGED <<sCfg, sSrc, sConn>>
  /\ InitFrame

\* Source.verifyConnectionConfig and the return of Init.
verifyConnectionConfig ==
  \/ VerifyTlsCert
  \/ VerifyTlsKey
  \/ VerifyProtocol
  \/ DefaultProtocol
  \/ VerifyUdpTls
  \/ VerifyListenAddress
  \/ DefaultListenAddress
  \/ VerifyFormat
  \/ DefaultFormat
  \/ InitReturn

\* Source.InjectConnection: s.conn = conn, at any time, with no call of
\* verifyConnectionConfig.  conn: the message the caller hands in.
InjectConnection(conn) ==
  /\ sConn' = conn
  /\ UNCHANGED <<sInit, sInitErr, tlsEnabled, sCfg, sSrc, sSyslog, lis, opened, cPc, cErr, cCert, cHold, udpTimer,
                 sockBuf, arrived, backlog, workers, chunksChan, emitted, ctxDone, sinceCancel>>
  /\ UNCHANGED <<dvars, fvars>>

(***************************************************************************)
(* Syslog source: listeners, time, chunks                                  *)
(***************************************************************************)
\* time.Second, the read deadline, in clock ticks.
Deadline == 1

\* The grace window of a cancellation: two read deadlines.
GraceWindow == 2 * Deadline

NoDeadline == -1

\* make([]byte, 65535) in acceptUDPConnections
UDPBufSize == 65535

\* make([]byte, 8096) in monitorConnection
TCPBufSize == 8096

NoListener == [kind |-> "none", network |-> "", open |-> FALSE]

\* Networks net.Listen (and so tls.Listen) can listen on.
StreamNetworks == {"tcp", "tcp4"}

\* tls.X509KeyPair needs a certificate and a key.
X509KeyPairOk(cert, key) == cert = "CERT" /\ key = "KEY"

Min(a, b) == IF a <= b THEN a ELSE b

NilMetadata ==
  [isNil |-> TRUE, Hostname |-> "", Appname |-> "", Procid |-> "", Timestamp |-> "",
   Facility |-> "", Client |-> ""]

\* Syslog.sourceMetadataFunc
sourceMetadataFunc(hostname, appname, procid, timestamp, facility, client) ==
  [isNil |-> FALSE, Hostname |-> hostname, Appname |-> appname, Procid |-> procid,
   Timestamp |-> timestamp, Facility |-> facility, Client |-> client]

\* Source.parseSyslogMetadata; wf: the input parses in the configured format.
parseSyslogMetadata(format, wf, remote) ==
  CASE format = "rfc5424" ->
         IF ~wf THEN [metadata |-> NilMetadata, err |-> "could not parse syslog as rfc5424"]
         ELSE [metadata |-> sourceMetadataFunc("host", "app", "pid", "time", nilString, remote),
               err |-> ""]
    [] format = "rfc3164" ->
         IF ~wf THEN [metadata |-> NilMetadata, err |-> "could not parse syslog as rfc3164"]
         ELSE [metadata |-> sourceMetadataFunc("host", nilString, nilString, "time", "fac", remote),
               err |-> ""]
    [] OTHER -> [metadata |-> NilMetadata, err |-> ""]

\* The bytes of a Chunk: n bytes read from datagram or read number seq of
\* connection conn (0: the UDP socket), in a slice of size bytes; the bytes
\* after the first n are the zeros make() put there.  buf: which of the
\* buffers its goroutine has read into the slice is.
\* A read loop that makes its buffer once, before the loop.
make_OnceBeforeLoop(filled) == 1

\* input := make([]byte, ...) at the top of the loop body: every iteration has
\* a slice of its own.  filled: the buffers the goroutine has read into so
\* far; the new one is none of them.
make(filled) == filled + 1

NoData == [conn |-> 0, seq |-> 0, buf |-> 0, n |-> 0, size |-> 0, wf |-> FALSE]

NoChunk ==
  [SourceName |-> "", SourceID |-> 0, JobID |-> 0, SourceType |-> "",
   SourceMetadata |-> NilMetadata, Data |-> NoData, Verify |-> FALSE]

\* The &sources.Chunk{...} literal of monitorConnection and acceptUDPConnections.
\* The literal names SourceName, SourceID, SourceType, SourceMetadata, Data and
\* Verify; it names no job id, which is left at the zero value.
MkChunk(metadata, input) ==
  [SourceName |-> sSyslog.sourceName, SourceID |-> sSyslog.sourceID, JobID |-> 0,
   SourceType |-> sSyslog.sourceType, SourceMetadata |-> metadata, Data |-> input,
   Verify |-> sSrc.verify]

\* Datagrams that can arrive: length in bytes and whether the payload parses.
PacketKinds ==
  {[len |-> 0, wf |-> FALSE], [len |-> 120, wf |-> TRUE], [len |-> 120, wf |-> FALSE],
   [len |-> 65507, wf |-> TRUE]}

\* Lengths of the segments a client writes.
SegmentLens == {120, 9000}

\* A connection and its worker.  reads: the successful reads so far; lastErr:
\* the error of the last conn.Read ("" when it succeeded).
NoWorker ==
  [pc |-> "none", timer |-> NoDeadline, avail |-> 0, segs |-> 0, peerClosed |-> FALSE,
   reads |-> 0, lastErr |-> "", hold |-> NoChunk]

Conns == 1..MaxConns

RECURSIVE SegsSent(_)
SegsSent(S) ==
  IF S = {} THEN 0
  ELSE LET c == CHOOSE x \in S : TRUE IN workers[c].segs + SegsSent(S \ {c})

\* Connections the clients have made so far.
Connected == Cardinality({c \in Conns : workers[c].pc # "none"})

Running == cPc \notin {"idle", "returned"}

Stream == lis.kind \in {"tcp", "tls"}

(***************************************************************************)
(* Source.Chunks                                                           *)
(***************************************************************************)
ChunksReturn(err) ==
  /\ cPc' = "returned"
  /\ cErr' = err
  /\ UNCHANGED <<lis, opened, udpTimer, cCert>>

Listening(kind, network) ==
  /\ lis' = [kind |-> kind, network |-> network, open |-> TRUE]
  /\ opened' = opened + 1

\* Chunks goes on to the next load of s.conn.
ChunksGoto(pc) ==
  /\ cPc' = pc
  /\ UNCHANGED <<lis, opened, cErr, udpTimer, cCert>>

ChunksFrame ==
  /\ UNCHANGED <<sInit, sInitErr, tlsEnabled, sCfg, sSrc, sConn, sSyslog, cHold, sockBuf, arrived, backlog,
                 workers, chunksChan, emitted, ctxDone, sinceCancel>>
  /\ UNCHANGED <<dvars, fvars>>

\* Where Chunks is before the accept loop.  Chunks loads s.conn anew for
\* every field it reads and InjectConnection stores to it without
\* synchronisation, so every load is a step of its own.
PrologPcs ==
  {"case_tlskey", "keypair_cert", "keypair_key", "tls_listen", "case_tcp", "tcp_listen",
   "case_udp", "udp_listen"}

\* Networks net.ListenPacket can listen on.
PacketNetworks == {"udp"}

\* case s.conn.TlsCert != nilString || ...: the left operand.
CaseTlsCert ==
  /\ sInit = "ok"
  /\ cPc = "idle"
  /\ ChunksGoto(IF sConn.TlsCert # nilString THEN "keypair_cert" ELSE "case_tlskey")
  /\ ChunksFrame

\* ... || s.conn.TlsKey != nilString: the right operand.
CaseTlsKey ==
  /\ cPc = "case_tlskey"
  /\ ChunksGoto(IF sConn.TlsKey # nilString THEN "keypair_cert" ELSE "case_tcp")
  /\ ChunksFrame

\* []byte(s.conn.TlsCert), the first argument of tls.X509KeyPair.
LoadTlsCert ==
  /\ cPc = "keypair_cert"
  /\ cCert' = sConn.TlsCert
  /\ cPc' = "keypair_key"
  /\ UNCHANGED <<lis, opened, cErr, udpTimer>>
  /\ ChunksFrame

\* []byte(s.conn.TlsKey) and the call of tls.X509KeyPair.
LoadKeyPair ==
  /\ cPc = "keypair_key"
  /\ IF ~X509KeyPairOk(cCert, sConn.TlsKey)
     THEN ChunksReturn([prefix |-> "could not load key pair", msg |-> "tls"])
     ELSE ChunksGoto("tls_listen")
  /\ ChunksFrame

\* tls.Listen(s.conn.Protocol, s.conn.ListenAddress, cfg).  listenOk: the
\* operating system lets the listen call succeed.
TlsListen(listenOk) ==
  /\ cPc = "tls_listen"
  /\ IF ~(sConn.Protocol \in StreamNetworks /\ listenOk)
     THEN ChunksReturn([prefix |-> "error creating TLS listener", msg |-> "net"])
     ELSE /\ Listening("tls", sConn.Protocol)
          /\ cPc' = "check"
          /\ UNCHANGED <<cErr, udpTimer, cCert>>
  /\ ChunksFrame

\* case s.conn.Protocol == "tcp"
CaseTcp ==
  /\ cPc = "case_tcp"
  /\ ChunksGoto(IF sConn.Protocol = "tcp" THEN "tcp_listen" ELSE "case_udp")
  /\ ChunksFrame

\* net.Listen(s.conn.Protocol, s.conn.ListenAddress)
TcpListen(listenOk) ==
  /\ cPc = "tcp_listen"
  /\ IF ~(sConn.Protocol \in StreamNetworks /\ listenOk)
     THEN ChunksReturn([prefix |-> "error creating TCP listener", msg |-> "net"])
     ELSE /\ Listening("tcp", sConn.Protocol)
          /\ cPc' = "check"
          /\ UNCHANGED <<cErr, udpTimer, cCert>>
  /\ ChunksFrame

\* case s.conn.Protocol == "udp", and the default branch.
CaseUdp ==
  /\ cPc = "case_udp"
  /\ IF sConn.Protocol = "udp" THEN ChunksGoto("udp_listen")
     ELSE ChunksReturn([prefix |-> "", msg |-> "unknown connection type"])
  /\ ChunksFrame

\* net.ListenPacket(s.conn.Protocol, s.conn.ListenAddress), then
\* lis.SetDeadline; deadlineOk: SetDeadline succeeds.
UdpListen(listenOk, deadlineOk) ==
  /\ cPc = "udp_listen"
  /\ IF ~(sConn.Protocol \in PacketNetworks /\ listenOk)
     THEN ChunksReturn([prefix |-> "error creating UDP listener", msg |-> "net"])
     ELSE IF ~deadlineOk
     THEN /\ Listening("udp", sConn.Protocol)
          /\ cPc' = "returned"
          /\ cErr' = [prefix |-> "could not set UDP deadline", msg |-> "net"]
          /\ UNCHANGED <<udpTimer, cCert>>
     ELSE /\ Listening("udp", sConn.Protocol)
          /\ udpTimer' = Deadline
          /\ cPc' = "check"
          /\ UNCHANGED <<cErr, cCert>>
  /\ ChunksFrame

\* The steps of Chunks after its first.
ChunksProlog(listenOk, deadlineOk) ==
  \/ CaseTlsKey
  \/ LoadTlsCert
  \/ LoadKeyPair
  \/ TlsListen(listenOk)
  \/ CaseTcp
  \/ TcpListen(listenOk)
  \/ CaseUdp
  \/ UdpListen(listenOk, deadlineOk)

\* Chunks up to the call of the accept loop: the switch that creates the
\* listener.
Chunks(listenOk, deadlineOk) ==
  \/ CaseTlsCert
  \/ ChunksProlog(listenOk, deadlineOk)

\* The top of the loop of acceptTCPConnections / acceptUDPConnections:
\* common.IsDone(ctx), and on return the deferred lis.Close() of Chunks.
AcceptLoopCheck ==
  /\ cPc = "check"
  /\ IF ctxDone
     THEN /\ cPc' = "returned"
          /\ lis' = [lis EXCEPT !.open = FALSE]
     ELSE /\ cPc' = IF Stream THEN "accept" ELSE "read"
          /\ UNCHANGED lis
  /\ UNCHANGED <<sInit, sInitErr, tlsEnabled, sCfg, sSrc, sConn, sSyslog, opened, cErr, cCert, cHold, udpTimer,
                 sockBuf, arrived, backlog, workers, chunksChan, emitted, ctxDone, sinceCancel>>
  /\ UNCHANGED <<dvars, fvars>>

\* netListener.Accept() returned a connection: go s.monitorConnection(...).
\* Accept has no deadline: it blocks until a client connects.
AcceptTCP ==
  /\ cPc = "accept"
  /\ backlog # << >>
  /\ workers' = [workers EXCEPT ![Head(backlog)].pc = "check"]
  /\ backlog' = Tail(backlog)
  /\ cPc' = "check"
  /\ UNCHANGED <<sInit, sInitErr, tlsEnabled, sCfg, sSrc, sConn, sSyslog, lis, opened, cErr, cCert, cHold, udpTimer,
                 sockBuf, arrived, chunksChan, emitted, ctxDone, sinceCancel>>
  /\ UNCHANGED <<dvars, fvars>>

\* netListener.ReadFrom(input) returned: with a timeout once the deadline that
\* Chunks set has passed (the loop goes on), with a datagram otherwise.
ReadFromUDP ==
  /\ cPc = "read"
  /\ IF udpTimer = 0
     THEN /\ cPc' = "check"
          /\ UNCHANGED <<sockBuf, cHold>>
     ELSE /\ sockBuf # << >>
          /\ LET p == Head(sockBuf)
                 input == [conn |-> 0, seq |-> p.no, buf |-> make(Len(emitted[0])),
                           n |-> Min(p.len, UDPBufSize),
                           size |-> UDPBufSize, wf |-> p.wf]
                 parsed == parseSyslogMetadata(sConn.Format, p.wf, "peer")
             IN cHold' = MkChunk(parsed.metadata, input)
          /\ sockBuf' = Tail(sockBuf)
          /\ cPc' = "send"
  /\ UNCHANGED <<sInit, sInitErr, tlsEnabled, sCfg, sSrc, sConn, sSyslog, lis, opened, cErr, cCert, udpTimer,
                 arrived, backlog, workers, chunksChan, emitted, ctxDone, sinceCancel>>
  /\ UNCHANGED <<dvars, fvars>>

\* chunksChan <- &sources.Chunk{...} in acceptUDPConnections
SendUDP ==
  /\ cPc = "send"
  /\ Len(chunksChan) < ChanCap
  /\ chunksChan' = Append(chunksChan, cHold)
  /\ emitted' = [emitted EXCEPT ![0] = Append(@, cHold)]
  /\ cHold' = NoChunk
  /\ cPc' = "check"
  /\ UNCHANGED <<sInit, sInitErr, tlsEnabled, sCfg, sSrc, sConn, sSyslog, lis, opened, cErr, cCert, udpTimer,
                 sockBuf, arrived, backlog, workers, ctxDone, sinceCancel>>
  /\ UNCHANGED <<dvars, fvars>>

(***************************************************************************)
(* Source.monitorConnection, one goroutine per accepted connection         *)
(***************************************************************************)
WorkerFrame ==
  /\ UNCHANGED <<sInit, sInitErr, tlsEnabled, sCfg, sSrc, sConn, sSyslog, lis, opened, cPc, cErr, cCert, cHold,
                 udpTimer, sockBuf, arrived, backlog, ctxDone, sinceCancel>>
  /\ UNCHANGED <<dvars, fvars>>

\* common.IsDone(ctx), then conn.SetDeadline(time.Now().Add(time.Second)).
MonitorCheck(c) ==
  /\ workers[c].pc = "check"
  /\ IF ctxDone
     THEN workers' = [workers EXCEPT ![c].pc = "done"]
     ELSE workers' = [workers EXCEPT ![c].pc = "read", ![c].timer = Deadline]
  /\ UNCHANGED <<chunksChan, emitted>>
  /\ WorkerFrame

\* monitorConnection that returns on every read error, not on io.EOF alone.
MonitorRead_ReturnOnAnyError(c, wf) ==
  /\ workers[c].pc = "read"
  /\ LET w == workers[c]
     IN IF w.timer = 0
        THEN workers' = [workers EXCEPT ![c].pc = "done", ![c].lastErr = "timeout"]
        ELSE IF w.avail > 0
        THEN LET n == Min(w.avail, TCPBufSize)
                 input == [conn |-> c, seq |-> w.reads + 1, buf |-> make(w.reads), n |-> n,
                           size |-> TCPBufSize,
                           wf |-> wf]
                 parsed == parseSyslogMetadata(sConn.Format, wf, "client")
             IN workers' = [workers EXCEPT ![c].pc = "send", ![c].avail = w.avail - n,
                                           ![c].reads = w.reads + 1, ![c].lastErr = "",
                                           ![c].hold = MkChunk(parsed.metadata, input)]
        ELSE /\ w.peerClosed
             /\ workers' = [workers EXCEPT ![c].pc = "done", ![c].lastErr = "EOF"]
  /\ UNCHANGED <<chunksChan, emitted>>
  /\ WorkerFrame

\* conn.Read(input) returned: a timeout (continue), bytes, or io.EOF (return).
MonitorRead(c, wf) ==
  /\ workers[c].pc = "read"
  /\ LET w == workers[c]
     IN IF w.timer = 0
        THEN workers' = [workers EXCEPT ![c].pc = "check", ![c].lastErr = "timeout"]
        ELSE IF w.avail > 0
        THEN LET n == Min(w.avail, TCPBufSize)
                 input == [conn |-> c, seq |-> w.reads + 1, buf |-> make(w.reads), n |-> n,
                           size |-> TCPBufSize,
                           wf |-> wf]
                 parsed == parseSyslogMetadata(sConn.Format, wf, "client")
             IN workers' = [workers EXCEPT ![c].pc = "send", ![c].avail = w.avail - n,
                                           ![c].reads = w.reads + 1, ![c].lastErr = "",
                                           ![c].hold = MkChunk(parsed.metadata, input)]
        ELSE /\ w.peerClosed
             /\ workers' = [workers EXCEPT ![c].pc = "done", ![c].lastErr = "EOF"]
  /\ UNCHANGED <<chunksChan, emitted>>
  /\ WorkerFrame

\* chunksChan <- &sources.Chunk{...} in monitorConnection
MonitorSend(c) ==
  /\ workers[c].pc = "send"
  /\ Len(chunksChan) < ChanCap
  /\ chunksChan' = Append(chunksChan, workers[c].hold)
  /\ emitted' = [emitted EXCEPT ![c] = Append(@, workers[c].hold)]
  /\ workers' = [workers EXCEPT ![c].pc = "check", ![c].hold = NoChunk]
  /\ WorkerFrame

(***************************************************************************)
(* Environment: clients, the consumer of the channel, the context, time    *)
(***************************************************************************)
EnvFrame ==
  /\ UNCHANGED <<sInit, sInitErr, tlsEnabled, sCfg, sSrc, sConn, sSyslog, lis, opened, cPc, cErr, cCert, cHold>>
  /\ UNCHANGED <<dvars, fvars>>

PacketArrives(kind) ==
  /\ lis.kind = "udp"
  /\ lis.open
  /\ arrived < MaxPackets
  /\ arrived' = arrived + 1
  /\ sockBuf' = Append(sockBuf, [no |-> arrived + 1, len |-> kind.len, wf |-> kind.wf])
  /\ UNCHANGED <<udpTimer, backlog, workers, chunksChan, emitted, ctxDone, sinceCancel>>
  /\ EnvFrame

ClientConnects(c) ==
  /\ Stream
  /\ lis.open
  /\ workers[c].pc = "none"
  /\ \A b \in Conns : b < c => workers[b].pc # "none"
  /\ Connected + SegsSent(Conns) < MaxClientOps
  /\ workers' = [workers EXCEPT ![c].pc = "queued"]
  /\ backlog' = Append(backlog, c)
  /\ UNCHANGED <<udpTimer, sockBuf, arrived, chunksChan, emitted, ctxDone, sinceCancel>>
  /\ EnvFrame

ClientSends(c, len) ==
  /\ workers[c].pc \notin {"none", "done"}
  /\ ~workers[c].peerClosed
  /\ SegsSent(Conns) < MaxSegs
  /\ Connected + SegsSent(Conns) < MaxClientOps
  /\ workers' = [workers EXCEPT ![c].avail = @ + len, ![c].segs = @ + 1]
  /\ UNCHANGED <<udpTimer, sockBuf, arrived, backlog, chunksChan, emitted, ctxDone, sinceCancel>>
  /\ EnvFrame

ClientCloses(c) ==
  /\ workers[c].pc \notin {"none", "done"}
  /\ ~workers[c].peerClosed
  /\ workers' = [workers EXCEPT ![c].peerClosed = TRUE]
  /\ UNCHANGED <<udpTimer, sockBuf, arrived, backlog, chunksChan, emitted, ctxDone, sinceCancel>>
  /\ EnvFrame

\* The engine's worker receives from the channel.
Consume ==
  /\ chunksChan # << >>
  /\ chunksChan' = Tail(chunksChan)
  /\ UNCHANGED <<udpTimer, sockBuf, arrived, backlog, workers, emitted, ctxDone, sinceCancel>>
  /\ EnvFrame

Cancel ==
  /\ sInit = "ok"
  /\ ~ctxDone
  /\ ctxDone' = TRUE
  /\ UNCHANGED <<udpTimer, sockBuf, arrived, backlog, workers, chunksChan, emitted, sinceCancel>>
  /\ EnvFrame

\* A goroutine of the source can take a step without waiting for anything.
CanStep ==
  \/ cPc \in PrologPcs
  \/ cPc = "check"
  \/ cPc = "accept" /\ backlog # << >>
  \/ cPc = "read" /\ (udpTimer = 0 \/ sockBuf # << >>)
  \/ cPc = "send" /\ Len(chunksChan) < ChanCap
  \/ \E c \in Conns :
       \/ workers[c].pc = "check"
       \/ workers[c].pc = "read"
            /\ (workers[c].timer = 0 \/ workers[c].avail > 0 \/ workers[c].peerClosed)
       \/ workers[c].pc = "send" /\ Len(chunksChan) < ChanCap

Dec(t) == IF t > 0 THEN t - 1 ELSE t

\* A monitorConnection goroutine is running for connection c.
Monitoring(c) == workers[c].pc \in {"check", "read", "send"}

\* One tick of the clock.  Steps of the goroutines take no time: the clock
\* advances only when every goroutine waits.
Tick ==
  /\ Running \/ \E c \in Conns : Monitoring(c)
  /\ ~CanStep
  /\ udpTimer' = Dec(udpTimer)
  /\ workers' = [c \in Conns |-> [workers[c] EXCEPT !.timer = Dec(@)]]
  /\ sinceCancel' = IF ctxDone /\ Running THEN Min(sinceCancel + 1, GraceWindow + 1)
                    ELSE sinceCancel
  /\ <<udpTimer', workers', sinceCancel'>> # <<udpTimer, workers, sinceCancel>>
  /\ UNCHANGED <<sockBuf, arrived, backlog, chunksChan, emitted, ctxDone>>
  /\ EnvFrame

SyslogNew ==
  /\ sInit = "new"
  /\ sInitErr = NoError
  /\ tlsEnabled = FALSE
  /\ sCfg = [Protocol |-> "", TlsCert |-> "", TlsKey |-> "", ListenAddress |-> "", Format |-> ""]
  /\ sSrc = [name |-> "", sourceId |-> 0, jobId |-> 0, verify |-> FALSE]
  /\ sConn = NilConn
  /\ sSyslog = NilSyslog
  /\ lis = NoListener
  /\ opened = 0
  /\ cPc = "idle"
  /\ cErr = NoError
  /\ cCert = nilString
  /\ cHold = NoChunk
  /\ udpTimer = NoDeadline
  /\ sockBuf = << >>
  /\ arrived = 0
  /\ backlog = << >>
  /\ workers = [c \in Conns |-> NoWorker]
  /\ chunksChan = << >>
  /\ emitted = [c \in 0..MaxConns |-> << >>]
  /\ ctxDone = FALSE
  /\ sinceCancel = 0

\* No utility function is being called.
UtilIdle ==
  /\ fIn = << >>
  /\ fOut = << >>
  /\ fPc = "idle"

(***************************************************************************)
(* Detector calls                                                          *)
(***************************************************************************)
RECURSIVE SeqsUpTo(_, _)
SeqsUpTo(S, n) ==
  IF n = 0 THEN {<< >>}
  ELSE LET shorter == SeqsUpTo(S, n - 1)
       IN shorter \cup {Append(q, x) : q \in {r \in shorter : Len(r) = n - 1}, x \in S}

DataInputs == SeqsUpTo(Lexemes, MaxDataLen)

NoOutput == [results |-> << >>, trace |-> << >>, err |-> FALSE]

InitDetect ==
  /\ dName \in Detectors
  /\ dData \in DataInputs
  /\ Len(Matches(dName, dData)) <= MaxCand
  /\ dVerify \in BOOLEAN
  /\ dHttp \in [1..(IF dVerify THEN Len(Matches(dName, dData)) ELSE 0) -> Outcomes]
  /\ dPc = "ready"
  /\ dOut = NoOutput
  /\ SyslogNew
  /\ UtilIdle

Call(d) ==
  /\ dPc = "ready"
  /\ dName = d
  /\ dOut' = FromData(d, dVerify, dData, dHttp)
  /\ dPc' = "done"
  /\ UNCHANGED <<dName, dData, dVerify, dHttp>>
  /\ UNCHANGED <<svars, fvars>>

walkscore_Call == Call("walkscore")

okta_Call == Call("okta")

abuseipdb_Call == Call("abuseipdb")

verifier_Call == Call("verifier")

paypaloauth_Call == Call("paypaloauth")

currencycloud_Call == Call("currencycloud")

text2data_Call == Call("text2data")

NextDetect ==
  \/ walkscore_Call
  \/ okta_Call
  \/ abuseipdb_Call
  \/ verifier_Call
  \/ paypaloauth_Call
  \/ currencycloud_Call
  \/ text2data_Call

SpecDetect == InitDetect /\ [][NextDetect]_vars

(***************************************************************************)
(* Claims about the detectors                                              *)
(***************************************************************************)
Returned == dPc = "done"

TraceIdx == 1..Len(dOut.trace)

ResultIdx == 1..Len(dOut.results)

\* Detectors whose verification also looks for a string in the response body.
BodyChecked == {"walkscore", "abuseipdb", "text2data", "currencycloud"}

\* C1: pre-filter soundness: whenever FromData returns at least one result,
\* the lowercased data contains one of the detector's keywords.
C1_PreFilterSound ==
  Returned /\ dOut.results # << >> => PreFilter(dName, dData)

\* C2: a result is Verified only if the request for that match completed
\* with a 2xx status (and, where the detector checks the body, the body
\* passed); a completed non-2xx response never yields Verified.
C2_VerifiedOnlyOn2xx ==
  Returned =>
    /\ \A i \in TraceIdx :
         dOut.trace[i].verified =>
           /\ dOut.trace[i].sent
           /\ ~dOut.trace[i].resp.err
           /\ Is2xx(dOut.trace[i].resp.status)
           /\ dName \in BodyChecked => dOut.trace[i].resp.marker
    /\ \A r \in ResultIdx :
         dOut.results[r].Verified =>
           \E i \in TraceIdx :
             /\ dOut.trace[i].raw = dOut.results[r].Raw
             /\ dOut.trace[i].verified
             /\ Is2xx(dOut.trace[i].resp.status)

\* C3: every unverified match that is emitted went through
\* IsKnownFalsePositive and was not rejected by it; a verified match is
\* never passed through the classifier and never dropped.
C3_UnverifiedFiltered ==
  Returned =>
    \A i \in TraceIdx :
      /\ dOut.trace[i].emitted /\ ~dOut.trace[i].verified =>
           dOut.trace[i].fpChecked /\ ~IsKnownFalsePositive(dOut.trace[i].raw)
      /\ dOut.trace[i].verified =>
           dOut.trace[i].emitted /\ ~dOut.trace[i].fpChecked

\* C4: the results of one FromData call hold at most one result per Raw, and
\* the result kept for a Raw is verified when any candidate with it was.
C4_OneResultPerRaw ==
  Returned =>
    /\ \A r1, r2 \in ResultIdx :
         dOut.results[r1].Raw = dOut.results[r2].Raw => r1 = r2
    /\ \A i \in TraceIdx :
         dOut.trace[i].emitted /\ dOut.trace[i].verified =>
           \A r \in ResultIdx :
             dOut.results[r].Raw = dOut.trace[i].raw => dOut.results[r].Verified

\* The verification request of iteration i failed: client.Do returned an
\* error, or the detector could not read the body it looks into.
RequestFailed(i) ==
  /\ dOut.trace[i].sent
  /\ \/ dOut.trace[i].resp.err
     \/ dName \in BodyChecked /\ dOut.trace[i].resp.readErr

\* C16: a network failure loses no match: FromData returns no error, every
\* match of the data is processed, and a match whose request failed is
\* reported unverified unless the false-positive filter rejected it.
C16_NetworkFailureKeepsMatches ==
  Returned =>
    /\ ~dOut.err
    /\ Len(dOut.trace) = Len(Matches(dName, dData))
    /\ \A i \in TraceIdx :
         RequestFailed(i) =>
           /\ ~dOut.trace[i].verified
           /\ \/ dOut.trace[i].emitted
                 /\ \E r \in ResultIdx : dOut.results[r].Raw = dOut.trace[i].raw
              \/ dOut.trace[i].fpChecked /\ IsKnownFalsePositive(dOut.trace[i].raw)

\* The verification request of iteration i was answered successfully: it was
\* sent, the response arrived and could be read, and its status is 2xx.
AnsweredSuccessfully(i) ==
  /\ dOut.trace[i].sent
  /\ ~RequestFailed(i)
  /\ Is2xx(dOut.trace[i].resp.status)

\* C17: with verify = false no request is sent and no result is Verified; a
\* Verified result comes only from a request for that match that was sent
\* and answered successfully during the same call.
C17_VerifiedNeedsRequest ==
  Returned =>
    /\ ~dVerify =>
         /\ \A i \in TraceIdx : ~dOut.trace[i].sent
         /\ \A r \in ResultIdx : ~dOut.results[r].Verified
    /\ \A r \in ResultIdx :
         dOut.results[r].Verified =>
           \E i \in TraceIdx :
             /\ dOut.trace[i].raw = dOut.results[r].Raw
             /\ dOut.trace[i].verified
             /\ AnsweredSuccessfully(i)

\* Detectors that correlate two tokens.
PairDetectors == {"verifier", "paypaloauth", "currencycloud", "okta"}

\* The first match set of a pair detector: the keys, secrets or tokens.
KeyMatches(d, data) ==
  IF d \in {"verifier", "currencycloud"} THEN PrefixFindAll(d, data, KeyLexemes, 1)
  ELSE PlainFindAll(data, KeyLexemes)

\* The second match set: the emails, ids or domains.
IdMatches(d, data) ==
  IF d = "verifier" THEN PrefixFindAll(d, data, {"id"}, 1)
  ELSE PlainFindAll(data, {"id"})

\* How often v occurs in the sequence s.
Count(s, v) == Cardinality({i \in 1..Len(s) : s[i] = v})

\* The iterations of the call that built a candidate from key k and id x.
Candidates(k, x) == {i \in TraceIdx : dOut.trace[i].raw = k /\ dOut.trace[i].id = x}

\* C22: a call of a detector that correlates two tokens has built one
\* candidate for every pair of the Cartesian product of its two match sets
\* (none when one of them is empty) and, with verify = true, has sent
\* exactly one request for each, none with verify = false.
C22_CartesianProduct ==
  Returned /\ dName \in PairDetectors =>
    LET keys == KeyMatches(dName, dData)
        ids == IdMatches(dName, dData)
    IN /\ Len(dOut.trace) = Len(keys) * Len(ids)
       /\ \A k \in KeyLexemes, x \in {"id"} :
            Cardinality(Candidates(k, x)) = Count(keys, k) * Count(ids, x)
       /\ \A i \in TraceIdx : dOut.trace[i].sent = dVerify
       /\ keys = << >> \/ ids = << >> => dOut.trace = << >>

(***************************************************************************)
(* The syslog source as a state machine                                    *)
(***************************************************************************)
DetectIdle ==
  /\ dName = "walkscore"
  /\ dData = << >>
  /\ dVerify = FALSE
  /\ dHttp = << >>
  /\ dPc = "idle"
  /\ dOut = NoOutput

InitSyslog == DetectIdle /\ SyslogNew /\ UtilIdle

InitAny(conns, verifies) ==
  \E name \in Names, jobId \in JobIds, sourceId \in SourceIds, verify \in verifies,
     cfg \in conns, decodes \in BOOLEAN :
    SourceInit(name, jobId, sourceId, verify, cfg, decodes)

\* InjectConnection with a message of every field combination in conns.
InjectAny(conns) == \E cfg \in conns : InjectConnection(Unmarshal(cfg))

ChunksAny == \E listenOk, deadlineOk \in BOOLEAN : Chunks(listenOk, deadlineOk)

MonitorStep ==
  \E c \in Conns :
    \/ MonitorCheck(c)
    \/ \E wf \in BOOLEAN : MonitorRead(c, wf)
    \/ MonitorSend(c)

SourceStep ==
  \/ AcceptLoopCheck
  \/ AcceptTCP
  \/ ReadFromUDP
  \/ SendUDP
  \/ MonitorStep

ClientStep ==
  \/ \E kind \in PacketKinds : PacketArrives(kind)
  \/ \E c \in Conns : ClientConnects(c)
  \/ \E c \in Conns, len \in SegmentLens : ClientSends(c, len)
  \/ \E c \in Conns : ClientCloses(c)

\* Init with every connection payload, and the creation of the listener.
NextConfig ==
  \/ InitAny(Connections, BOOLEAN)
  \/ verifyConnectionConfig
  \/ InjectAny(ConfigInjections)
  \/ ChunksAny

SpecConfig == InitSyslog /\ [][NextConfig]_vars

\* The running source.
NextSyslog ==
  \/ InitAny(RunConnections, {TRUE})
  \/ verifyConnectionConfig
  \/ InjectAny(RunInjections)
  \/ ChunksAny
  \/ SourceStep
  \/ ClientStep
  \/ Consume
  \/ Cancel
  \/ Tick

SpecSyslog == InitSyslog /\ [][NextSyslog]_vars

\* The goroutines of the source keep running, the consumer keeps receiving,
\* time passes; clients and the cancellation are under no obligation.
Fairness ==
  /\ WF_vars((\E listenOk, deadlineOk \in BOOLEAN : ChunksProlog(listenOk, deadlineOk))
             \/ AcceptLoopCheck \/ AcceptTCP \/ ReadFromUDP \/ SendUDP)
  /\ \A c \in Conns :
       WF_vars(MonitorCheck(c) \/ (\E wf \in BOOLEAN : MonitorRead(c, wf)) \/ MonitorSend(c))
  /\ WF_vars(Consume)
  /\ WF_vars(Tick)

SpecSyslogFair == InitSyslog /\ [][NextSyslog]_vars /\ Fairness

\* The goroutines of the source keep running and time passes; the consumer
\* of the channel is under no obligation to receive.
FairnessNoConsumer ==
  /\ WF_vars((\E listenOk, deadlineOk \in BOOLEAN : ChunksProlog(listenOk, deadlineOk))
             \/ AcceptLoopCheck \/ AcceptTCP \/ ReadFromUDP \/ SendUDP)
  /\ \A c \in Conns :
       WF_vars(MonitorCheck(c) \/ (\E wf \in BOOLEAN : MonitorRead(c, wf)) \/ MonitorSend(c))
  /\ WF_vars(Tick)

SpecSyslogNoConsumer == InitSyslog /\ [][NextSyslog]_vars /\ FairnessNoConsumer

(***************************************************************************)
(* Claims about the syslog source                                          *)
(***************************************************************************)
\* C5: once the context is cancelled, Chunks returns within two read
\* deadlines, whatever the transport and also when no client connects and
\* no datagram arrives.
C5_CancelReturnsInTime == sinceCancel > GraceWindow => cPc = "returned"

\* Datagram number k was emitted as exactly one Chunk.
Delivered(k) == Cardinality({i \in 1..Len(emitted[0]) : emitted[0][i].Data.seq = k}) = 1

\* C6: with protocol udp, the context not cancelled and the consumer
\* receiving, every datagram that arrives, however late, is eventually
\* emitted as exactly one Chunk.
C6_EveryDatagramDelivered ==
  \A k \in 1..MaxPackets : (Running /\ arrived >= k) ~> (ctxDone \/ ~Running \/ Delivered(k))

TableTransport(protocol, tls) ==
  CASE protocol = "tcp" /\ tls -> "tls"
    [] protocol = "tcp" /\ ~tls -> "tcp"
    [] protocol = "udp" /\ ~tls -> "udp"
    [] OTHER -> "none"

\* Errors of Chunks that come from the TLS library or the operating system.
EnvironmentErrors ==
  {"could not load key pair", "error creating TLS listener", "error creating TCP listener",
   "error creating UDP listener", "could not set UDP deadline"}

\* C8: after a successful Init, a call of Chunks (that the operating system
\* does not fail) has opened exactly one listener, of the transport the table
\* gives for (protocol, TLS material present).
C8_ExactlyOneListener ==
  cPc \notin {"idle"} \cup PrologPcs /\ cErr.prefix \notin EnvironmentErrors =>
    /\ opened = 1
    /\ sConn.Protocol \in {"tcp", "udp"} =>
         lis.kind = TableTransport(sConn.Protocol, TlsEnabled(sConn))

EmittedChunks == UNION {{emitted[c][i] : i \in 1..Len(emitted[c])} : c \in 0..MaxConns}

\* C10: the Data of every emitted Chunk is exactly the bytes its read
\* returned: as long as the number of bytes read, at most 65535 for a
\* datagram.
C10_DataIsBytesRead ==
  \A ch \in EmittedChunks :
    /\ ch.Data.size = ch.Data.n
    /\ ch.Data.conn = 0 => ch.Data.size <= 65535

(***************************************************************************)
(* Claims about the connection workers                                     *)
(***************************************************************************)
\* The worker of connection c holds a Chunk it has read and not yet sent.
Holding(c) == IF workers[c].pc = "send" THEN 1 ELSE 0

\* Every successful read of connection c has become exactly one Chunk (the
\* one in hand excepted), failed reads none, in the order of the reads.
OneChunkPerRead(c) ==
  /\ Len(emitted[c]) = workers[c].reads - Holding(c)
  /\ \A i \in 1..Len(emitted[c]) : emitted[c][i].Data.conn = c /\ emitted[c][i].Data.seq = i
  /\ workers[c].pc = "send" => workers[c].hold.Data.seq = workers[c].reads

\* C11 as stated: the Chunks of a connection are its successful reads, one
\* each and in order, and a read error other than EOF is always followed by
\* another read: a worker never ends after such an error.
C11_ReadErrorAlwaysRetried ==
  \A c \in Conns :
    /\ OneChunkPerRead(c)
    /\ workers[c].pc = "done" => workers[c].lastErr # "timeout"

\* C11 (amended): the Chunks of a connection are its successful reads, one
\* each and in order; after a read error other than EOF the worker reads
\* again unless the context was cancelled, and only then it ends.
C11_ChunksAreReads ==
  \A c \in Conns :
    /\ OneChunkPerRead(c)
    /\ workers[c].pc = "done" /\ workers[c].lastErr = "timeout" => ctxDone

\* A worker that timed out once, read again and has emitted its Chunk.
C11_Witness ==
  \E c \in Conns :
    /\ workers[c].reads = 1
    /\ Len(emitted[c]) = 1
    /\ workers[c].pc = "read"
    /\ workers[c].lastErr = "timeout"
    /\ ~ctxDone

\* C12: a Chunk whose payload fails to parse in the configured format is
\* still emitted with the bytes read, and its SourceMetadata is a syslog
\* metadata value with empty fields, not an absent one.
C12_ParseFailureMetadata ==
  \A ch \in EmittedChunks :
    ~ch.Data.wf =>
      /\ ch.Data.seq > 0
      /\ ~ch.SourceMetadata.isNil
      /\ ch.SourceMetadata.Hostname = "" /\ ch.SourceMetadata.Appname = ""
      /\ ch.SourceMetadata.Procid = "" /\ ch.SourceMetadata.Timestamp = ""
      /\ ch.SourceMetadata.Facility = ""

\* The connection workers that run: started and not yet returned.
RunningWorkers == {c \in Conns : Monitoring(c)}

\* C13: the connection workers running at the same time are never more than
\* the capacity of the source's semaphore, the CPU count.
C13_WorkersBounded ==
  sInit = "ok" =>
    /\ sSyslog.concurrency = NumCPU
    /\ Cardinality(RunningWorkers) <= sSyslog.concurrency

\* C14: when Chunks has returned, every listener it opened is closed, on the
\* return after cancellation and on every error return alike.
C14_ListenerClosed == cPc = "returned" => ~lis.open

\* C15: every emitted Chunk carries the name, source id, job id and verify
\* flag given to Init and the source type SYSLOG.
C15_Provenance ==
  \A ch \in EmittedChunks :
    /\ ch.SourceName = sSrc.name
    /\ ch.SourceID = sSrc.sourceId
    /\ ch.JobID = sSrc.jobId
    /\ ch.SourceType = Type
    /\ ch.Verify = sSrc.verify

(***************************************************************************)
(* Claims about cancellation, buffers and the protocol                     *)
(***************************************************************************)
\* C23: after the context is cancelled every connection worker eventually
\* returns, also one that waits to send its Chunk on a channel nobody
\* receives from; and a worker that returned on EOF emits nothing more.
C23_WorkersStopOnCancel ==
  /\ ctxDone ~> (\A c \in Conns : ~Monitoring(c))
  /\ [][\A c \in Conns :
          workers[c].pc = "done" /\ workers[c].lastErr = "EOF" =>
            workers'[c].pc = "done" /\ emitted'[c] = emitted[c]]_vars

\* The Chunk goroutine c has read and not yet sent (0: the UDP loop).
InHand(c) == IF c = 0 THEN cHold ELSE workers[c].hold

\* C24: no emitted Chunk has empty Data, and the buffer of an emitted Chunk
\* is never read into again: the Chunks of a goroutine, the one in hand
\* included, all have buffers of their own.
C24_ChunksImmutableNonEmpty ==
  \A c \in 0..MaxConns :
    /\ \A i \in 1..Len(emitted[c]) :
         /\ emitted[c][i].Data.conn = c
         /\ emitted[c][i].Data.size > 0
         /\ emitted[c][i].Data.buf > 0
         /\ \A j \in 1..Len(emitted[c]) :
              i # j => emitted[c][i].Data.buf # emitted[c][j].Data.buf
         /\ InHand(c) # NoChunk => InHand(c).Data.buf # emitted[c][i].Data.buf

\* A connection whose worker has emitted one Chunk and read the next one.
C24_Witness ==
  \E c \in Conns :
    /\ Len(emitted[c]) = 1
    /\ workers[c].pc = "send"
    /\ workers[c].reads = 2

\* C25: after a successful Init the protocol is tcp or udp: Chunks never
\* returns "unknown connection type" and never hands a protocol other than
\* tcp to the TLS listener.
C25_ProtocolValidated ==
  /\ sInit = "ok" => sConn.Protocol \in {"tcp", "udp"}
  /\ cErr.msg # "unknown connection type"
  /\ lis.kind = "tls" => lis.network = "tcp"

(***************************************************************************)
(* sanitizer.UTF8.  A string is the sequence of its bytes.                 *)
(***************************************************************************)
\* "\x00"
NUL == 0

\* The bytes of "\u2757", the replacement handed to strings.ToValidUTF8.
Replacement == <<226, 157, 151>>

\* Bytes the inputs are made of: NUL, 'a', the two bytes of U+00E9, the
\* three bytes of the replacement itself, and 0xFF, valid nowhere.
SanBytes == {0, 97, 195, 169, 226, 157, 151, 255}

\* Byte i of s exists and lies in lo..hi.
InRange(s, i, lo, hi) == i <= Len(s) /\ s[i] >= lo /\ s[i] <= hi

\* utf8.DecodeRuneInString(s[i:]): the width of the rune encoded at byte i,
\* 0 when the bytes there are no valid encoding (Go reports RuneError, 1).
RuneWidth(s, i) ==
  LET c == s[i]
  IN IF c < 128 THEN 1
     ELSE IF c >= 194 /\ c <= 223
       THEN IF InRange(s, i + 1, 128, 191) THEN 2 ELSE 0
     ELSE IF c >= 224 /\ c <= 239
       THEN IF /\ InRange(s, i + 1, IF c = 224 THEN 160 ELSE 128, IF c = 237 THEN 159 ELSE 191)
               /\ InRange(s, i + 2, 128, 191)
            THEN 3 ELSE 0
     ELSE IF c >= 240 /\ c <= 244
       THEN IF /\ InRange(s, i + 1, IF c = 240 THEN 144 ELSE 128, IF c = 244 THEN 143 ELSE 191)
               /\ InRange(s, i + 2, 128, 191)
               /\ InRange(s, i + 3, 128, 191)
            THEN 4 ELSE 0
     ELSE 0

\* utf8.ValidString(s[i:])
RECURSIVE ValidFrom(_, _)
ValidFrom(s, i) ==
  IF i > Len(s) THEN TRUE
  ELSE LET w == RuneWidth(s, i) IN w > 0 /\ ValidFrom(s, i + w)

ValidString(s) == ValidFrom(s, 1)

\* The loop of strings.ToValidUTF8 from byte i; invalid: the byte before
\* belonged to an invalid sequence, for which the replacement was written.
RECURSIVE ToValidFrom(_, _, _, _)
ToValidFrom(s, replacement, i, invalid) ==
  IF i > Len(s) THEN << >>
  ELSE LET w == RuneWidth(s, i)
       IN IF w = 0
          THEN (IF invalid THEN << >> ELSE replacement)
                 \o ToValidFrom(s, replacement, i + 1, TRUE)
          ELSE SubSeq(s, i, i + w - 1) \o ToValidFrom(s, replacement, i + w, FALSE)

\* strings.ToValidUTF8(s, replacement): every run of invalid bytes becomes
\* one replacement.
ToValidUTF8(s, replacement) == ToValidFrom(s, replacement, 1, FALSE)

\* strings.Replace(s, old, new, -1) for a one-byte old.
RECURSIVE Replace(_, _, _)
Replace(s, old, new) ==
  IF s = << >> THEN << >>
  ELSE (IF Head(s) = old THEN new ELSE <<Head(s)>>) \o Replace(Tail(s), old, new)

\* UTF8 without the removal of the NUL bytes.
UTF8_KeepsNUL(in) == ToValidUTF8(in, Replacement)

\* sanitizer.UTF8
UTF8(in) == Replace(ToValidUTF8(in, Replacement), NUL, << >>)

SanInputs == SeqsUpTo(SanBytes, MaxBytes)

InitUTF8 ==
  /\ DetectIdle
  /\ SyslogNew
  /\ fIn \in SanInputs
  /\ fOut = << >>
  /\ fPc = "ready"

\* UTF8(x)
Sanitize ==
  /\ fPc = "ready"
  /\ fOut' = UTF8(fIn)
  /\ fPc' = "done"
  /\ UNCHANGED <<fIn, dvars, svars>>

\* UTF8 of what UTF8 returned.
SanitizeAgain ==
  /\ fPc = "done"
  /\ fIn' = fOut
  /\ fOut' = UTF8(fOut)
  /\ fPc' = "again"
  /\ UNCHANGED <<dvars, svars>>

NextUTF8 ==
  \/ Sanitize
  \/ SanitizeAgain

SpecUTF8 == InitUTF8 /\ [][NextUTF8]_vars

\* C18: UTF8 is idempotent, its output holds no NUL byte and is valid UTF-8,
\* and a valid input without NUL comes back unchanged.
C18_SanitizerIdempotent ==
  /\ fPc = "again" => fOut = fIn
  /\ fPc \in {"done", "again"} =>
       /\ \A i \in 1..Len(fOut) : fOut[i] # NUL
       /\ ValidString(fOut)
  /\ fPc = "done" /\ ValidString(fIn) /\ (\A i \in 1..Len(fIn) : fIn[i] # NUL) => fOut = fIn

\* An input with a NUL between the halves of a two-byte rune, sanitized
\* to two replacements.
C18_Witness ==
  /\ fPc = "done"
  /\ fIn = <<195, 0, 169>>
  /\ fOut = Replacement \o Replacement

(***************************************************************************)
(* Package git: GenerateLink and PrepareRepo.  Neither function is among   *)
(* the sources; both are modelled from the specification (4.1, 6) and the  *)
(* tests Test_generateLink and TestPrepareRepo.                            *)
(* A string is the sequence of its characters; a word that is never taken  *)
(* apart ("/blob/", a scheme) stands as one element.                       *)
(***************************************************************************)
DotGit == <<".", "g", "i", "t">>

HasSuffix(str, suffix) ==
  /\ Len(str) >= Len(suffix)
  /\ SubSeq(str, Len(str) - Len(suffix) + 1, Len(str)) = suffix

HasPrefix(str, prefix) ==
  /\ Len(str) >= Len(prefix)
  /\ SubSeq(str, 1, Len(prefix)) = prefix

\* The suffix is removed once, when it is there.
TrimSuffix(str, suffix) ==
  IF HasSuffix(str, suffix) THEN SubSeq(str, 1, Len(str) - Len(suffix)) ELSE str

\* GenerateLink that cuts the last four characters off whatever the
\* repository ends in.
GenerateLink_CutsFour(repo, commit, file) ==
  LET cut == SubSeq(repo, 1, Len(repo) - Len(DotGit))
  IN IF file = << >> THEN cut \o <<"/commit/">> \o commit
     ELSE cut \o <<"/blob/">> \o commit \o <<"/">> \o file

\* GenerateLink(repo, commit, file)
GenerateLink(repo, commit, file) ==
  LET stripped == TrimSuffix(repo, DotGit)
  IN IF file = << >> THEN stripped \o <<"/commit/">> \o commit
     ELSE stripped \o <<"/blob/">> \o commit \o <<"/">> \o file

RECURSIVE Flatten(_)
Flatten(pieces) == IF pieces = << >> THEN << >> ELSE Head(pieces) \o Flatten(Tail(pieces))

\* Repository URLs: a base followed by pieces that make up, or nearly make
\* up, the suffix ".git".
RepoPieces == {DotGit, <<".", "g", "i">>, <<"g", "i", "t">>, <<"t">>, <<".">>, <<"x">>}

Repos == {<<"https://host/repo">> \o Flatten(p) : p \in SeqsUpTo(RepoPieces, MaxPieces)}

Commits == {<<"047b4a2">>}

Files == {<< >>, <<".gitignore">>, <<"dir", "/", "f">> \o DotGit}

\* The schemes PrepareRepo accepts as remote, and the local one.
RemoteSchemes == {"http://", "https://", "git@"}

FileScheme == "file://"

\* The temporary directory a remote repository is cloned into.
CloneDir == <<"/tmp/trufflehog/clone">>

\* The error of a clone that failed; the specification names no text for it.
CloneError == <<"failed to clone Git repo: ">>

\* PrepareRepo that takes every URI with "://" in front for a remote one.
PrepareRepo_FileIsRemote(uri, cloneOk) ==
  IF uri # << >> /\ uri[1] \in RemoteSchemes \cup {FileScheme}
  THEN IF cloneOk
       THEN [path |-> CloneDir, remote |-> TRUE, err |-> << >>]
       ELSE [path |-> << >>, remote |-> TRUE, err |-> CloneError \o uri]
  ELSE [path |-> << >>, remote |-> FALSE, err |-> <<"unsupported Git URI: ">> \o uri]

\* PrepareRepo(uri): path, remote, err (<< >> for nil).  A remote URI is
\* cloned into a temporary directory, and the clone can fail (cloneOk); a
\* file:// URI is the local path that follows the scheme, with no clone.
PrepareRepo(uri, cloneOk) ==
  IF uri # << >> /\ uri[1] \in RemoteSchemes
  THEN IF cloneOk
       THEN [path |-> CloneDir, remote |-> TRUE, err |-> << >>]
       ELSE [path |-> << >>, remote |-> TRUE, err |-> CloneError \o uri]
  ELSE IF uri # << >> /\ uri[1] = FileScheme
  THEN [path |-> Tail(uri), remote |-> FALSE, err |-> << >>]
  ELSE [path |-> << >>, remote |-> FALSE, err |-> <<"unsupported Git URI: ">> \o uri]

\* What follows the scheme of a URI, and other words.
UriWords == {"github.com/dustin-decker/secretsandstuff.git", "/path/to/file.json", "no bueno", "ftp://"}

\* Git URIs: every string of schemes and words, a scheme alone and the empty
\* string among them.
Uris == SeqsUpTo(RemoteSchemes \cup {FileScheme} \cup UriWords, MaxUriParts)

InitGit ==
  /\ DetectIdle
  /\ SyslogNew
  /\ \/ fIn \in [fn : {"GenerateLink"}, repo : Repos, commit : Commits, file : Files]
     \/ fIn \in [fn : {"PrepareRepo"}, uri : Uris, cloneOk : BOOLEAN]
  /\ fOut = << >>
  /\ fPc = "ready"

GenerateLinkCall ==
  /\ fPc = "ready"
  /\ fIn.fn = "GenerateLink"
  /\ fOut' = GenerateLink(fIn.repo, fIn.commit, fIn.file)
  /\ fPc' = "done"
  /\ UNCHANGED <<fIn, dvars, svars>>

PrepareRepoCall ==
  /\ fPc = "ready"
  /\ fIn.fn = "PrepareRepo"
  /\ fOut' = PrepareRepo(fIn.uri, fIn.cloneOk)
  /\ fPc' = "done"
  /\ UNCHANGED <<fIn, dvars, svars>>

NextGit ==
  \/ GenerateLinkCall
  \/ PrepareRepoCall

SpecGit == InitGit /\ [][NextGit]_vars

\* The call of fn has returned.
Called(fn) == fPc = "done" /\ fIn.fn = fn

\* C19: the link is the repository, less one trailing ".git" when it has
\* one, followed by /blob/<commit>/<file>, or by /commit/<commit> when the
\* file is empty: a repository ending in ".git.git" keeps one ".git", one
\* without the suffix is kept whole, and the link starts with what is kept.
C19_LinkFormat ==
  Called("GenerateLink") =>
    LET repo == fIn.repo
        kept == IF HasSuffix(repo, DotGit) THEN Len(repo) - 4 ELSE Len(repo)
        tail == SubSeq(fOut, kept + 1, Len(fOut))
    IN /\ Len(fOut) > kept
       /\ SubSeq(fOut, 1, kept) = SubSeq(repo, 1, kept)
       /\ HasSuffix(repo, DotGit \o DotGit) => HasSuffix(SubSeq(fOut, 1, kept), DotGit)
       /\ tail = IF fIn.file = << >> THEN <<"/commit/">> \o fIn.commit
                 ELSE <<"/blob/">> \o fIn.commit \o <<"/">> \o fIn.file

\* A repository that ends in ".git.git", linked with one ".git" left.
C19_Witness ==
  /\ Called("GenerateLink")
  /\ fIn.repo = <<"https://host/repo">> \o DotGit \o DotGit
  /\ fIn.file = << >>
  /\ fOut = <<"https://host/repo">> \o DotGit \o <<"/commit/", "047b4a2">>

\* C20: a URI that starts with http://, https:// or git@ gives a non-empty
\* path, remote and no error; one that starts with file:// a non-empty
\* path, not remote and no error; every other URI gives an empty path, not
\* remote and the error "unsupported Git URI: <uri>".
C20_UriClassified ==
  Called("PrepareRepo") =>
    LET uri == fIn.uri
    IN IF \E scheme \in RemoteSchemes : HasPrefix(uri, <<scheme>>)
       THEN fOut.path # << >> /\ fOut.remote /\ fOut.err = << >>
       ELSE IF HasPrefix(uri, <<FileScheme>>)
       THEN fOut.path # << >> /\ ~fOut.remote /\ fOut.err = << >>
       ELSE /\ fOut.path = << >>
            /\ ~fOut.remote
            /\ fOut.err = <<"unsupported Git URI: ">> \o uri

\* The error of PrepareRepo is the one for a URI of no supported form.
Unsupported(err) == HasPrefix(err, <<"unsupported Git URI: ">>)

\* C20 (amended): a URI that starts with http://, https:// or git@ is
\* remote, and gives a non-empty path and no error when its clone succeeds,
\* an error other than "unsupported Git URI" when the clone fails; one that
\* starts with file:// gives what follows the scheme as the path (non-empty
\* when something follows), not remote and no error; every other URI gives
\* an empty path, not remote and the error "unsupported Git URI: <uri>".
C20_UriPrepared ==
  Called("PrepareRepo") =>
    LET uri == fIn.uri
    IN IF \E scheme \in RemoteSchemes : HasPrefix(uri, <<scheme>>)
       THEN /\ fOut.remote
            /\ fIn.cloneOk => fOut.path # << >> /\ fOut.err = << >>
            /\ ~fIn.cloneOk => fOut.err # << >> /\ ~Unsupported(fOut.err)
       ELSE IF HasPrefix(uri, <<FileScheme>>)
       THEN /\ fOut.path = Tail(uri)
            /\ Len(uri) > 1 => fOut.path # << >>
            /\ ~fOut.remote
            /\ fOut.err = << >>
       ELSE /\ fOut.path = << >>
            /\ ~fOut.remote
            /\ fOut.err = <<"unsupported Git URI: ">> \o uri

\* The remote URI of the test, whose clone failed: remote, with an error.
C20_Witness ==
  /\ Called("PrepareRepo")
  /\ fIn.uri = <<"https://", "github.com/dustin-decker/secretsandstuff.git">>
  /\ ~fIn.cloneOk
  /\ fOut.remote
  /\ fOut.err # << >>

(***************************************************************************)
(* The JDBC detector.  The data is a sequence of words separated by white  *)
(* space; a word is a sequence of pieces: the characters of a password,    *)
(* and the other parts of a connection string taken whole.                 *)
(***************************************************************************)
\* jdbc:<subprotocol>:<rest>, up to the parameters.
JdbcBase == "jdbc:mysql://hello.test.us-east-1.rds.amazonaws.com:3306/testdb"

PasswordParam == "password="

ParamSeparator == "&"

Star == "*"

\* The word is a JDBC connection string.
IsConnectionString(word) == word # << >> /\ word[1] = JdbcBase

\* Masks everything after "password=", up to the end of the word.
RECURSIVE Mask_ToEnd(_, _)
Mask_ToEnd(word, inPassword) ==
  IF word = << >> THEN << >>
  ELSE IF inPassword THEN <<Star>> \o Mask_ToEnd(Tail(word), TRUE)
  ELSE <<Head(word)>> \o Mask_ToEnd(Tail(word), Head(word) = PasswordParam)

\* The connection string with every character of the password value, from
\* "password=" to the next parameter or the end, replaced by one "*".
RECURSIVE Mask(_, _)
Mask(word, inPassword) ==
  IF word = << >> THEN << >>
  ELSE IF inPassword /\ Head(word) # ParamSeparator
  THEN <<Star>> \o Mask(Tail(word), TRUE)
  ELSE <<Head(word)>> \o Mask(Tail(word), Head(word) = PasswordParam)

\* A redaction that also masks the parameters after the password.
Redact_ToEnd(word) == Mask_ToEnd(word, FALSE)

\* Result.Redacted of a connection string.
Redact(word) == Mask(word, FALSE)

\* One result for every connection string of the data.  answers: the
\* database accepts the connection when the detector tries it.
RECURSIVE jdbc_Results(_, _, _)
jdbc_Results(verify, data, answers) ==
  IF data = << >> THEN << >>
  ELSE (IF IsConnectionString(Head(data))
        THEN <<[DetectorType |-> "JDBC", Raw |-> Head(data), Redacted |-> Redact(Head(data)),
                Verified |-> verify /\ answers]>>
        ELSE << >>) \o jdbc_Results(verify, Tail(data), answers)

jdbc_FromData(verify, data, answers) ==
  [results |-> jdbc_Results(verify, data, answers), err |-> FALSE]

\* The longest password and the most words of a data input.
MaxPwLen == 2

MaxWords == 2

Passwords == SeqsUpTo({"t", "e"}, MaxPwLen) \ {<< >>}

\* What follows the password in a connection string.
ParamTails == {<< >>, <<ParamSeparator, "useSSL=true">>}

ConnectionStrings ==
  {<<JdbcBase, "?", PasswordParam>> \o pw \o tail : pw \in Passwords, tail \in ParamTails}

\* Words that are no connection string; the first is the word the test's
\* data starts with.
PlainWords == {<<"jdbc">>, <<"<-">>}

JdbcInputs == SeqsUpTo(ConnectionStrings \cup PlainWords, MaxWords)

InitJdbc ==
  /\ DetectIdle
  /\ SyslogNew
  /\ fIn \in [fn : {"jdbc.FromData"}, verify : BOOLEAN, data : JdbcInputs, answers : BOOLEAN]
  /\ fOut = << >>
  /\ fPc = "ready"

jdbc_Call ==
  /\ fPc = "ready"
  /\ fIn.fn = "jdbc.FromData"
  /\ fOut' = jdbc_FromData(fIn.verify, fIn.data, fIn.answers)
  /\ fPc' = "done"
  /\ UNCHANGED <<fIn, dvars, svars>>

NextJdbc == jdbc_Call

SpecJdbc == InitJdbc /\ [][NextJdbc]_vars

\* The connection strings of the data, in order.
Found(data) == SelectSeq(data, IsConnectionString)

\* Where the password value of a connection string starts and ends.
PwFirst(word) == 1 + CHOOSE i \in 1..Len(word) : word[i] = PasswordParam

PwLast(word) ==
  IF \E i \in PwFirst(word)..Len(word) : word[i] = ParamSeparator
  THEN (CHOOSE i \in PwFirst(word)..Len(word) :
          /\ word[i] = ParamSeparator
          /\ \A j \in PwFirst(word)..(i - 1) : word[j] # ParamSeparator) - 1
  ELSE Len(word)

\* C21: for data with one JDBC connection string, whose password cannot be
\* verified, FromData returns no error and one result of type JDBC, not
\* verified, with a non-empty Raw and a Redacted that is the connection
\* string with every character of the password value replaced by one "*";
\* for data with no connection string it returns no result and no error.
C21_JdbcRedacted ==
  Called("jdbc.FromData") =>
    LET found == Found(fIn.data)
    IN /\ found = << >> => fOut.results = << >> /\ ~fOut.err
       /\ Len(found) = 1 /\ ~(fIn.verify /\ fIn.answers) =>
            LET conn == found[1]
                r == fOut.results[1]
            IN /\ ~fOut.err
               /\ Len(fOut.results) = 1
               /\ r.DetectorType = "JDBC"
               /\ ~r.Verified
               /\ r.Raw # << >>
               /\ Len(r.Redacted) = Len(conn)
               /\ \A i \in 1..Len(conn) :
                    r.Redacted[i] = IF PwFirst(conn) <= i /\ i <= PwLast(conn) THEN Star
                                    ELSE conn[i]

\* The data of the test in small: a connection string between two other
\* words, verification asked for and failing; a password of two characters
\* followed by another parameter is masked by two stars.
C21_Witness ==
  /\ Called("jdbc.FromData")
  /\ fIn.verify
  /\ ~fIn.answers
  /\ fIn.data = <<<<"jdbc">>,
                  <<JdbcBase, "?", PasswordParam, "t", "e", ParamSeparator, "useSSL=true">>>>
  /\ Len(fOut.results) = 1
  /\ fOut.results[1].Redacted =
       <<JdbcBase, "?", PasswordParam, Star, Star, ParamSeparator, "useSSL=true">>
  /\ ~fOut.results[1].Verified

====
